---------------------------- MODULE Spec2Model ----------------------------
(***************************************************************************)
(* WAV ingestion of native/whisper/whisper_wrapper.cpp: read_audio_file    *)
(* (RIFF/WAVE chunk scan, format validation, 16-bit PCM decoding) and the  *)
(* C entry points whisper_ffi_transcribe / whisper_ffi_free_string.        *)
(*                                                                         *)
(* A file is a sequence of bytes (0..255).  The std::ifstream is a cursor  *)
(* `pos` plus the fail bit `fail`.  32-bit and 64-bit quantities that can  *)
(* exceed the 32-bit integers of TLC are kept in two 16-bit-based limbs     *)
(* [hi, lo] with value hi * 65536 + lo.                                    *)
(***************************************************************************)
EXTENDS Integers, Sequences, FiniteSets, TLC

----------------------------------------------------------------------------
(* Bounds of the input families *)

\* unknown chunks in front of the fmt chunk / between fmt and data: 0..MaxJunk
MaxJunk == 1
\* bytes cut from the end of the file: 0..MaxCut
MaxCut == 6
\* samples in a generated data chunk body: 0..MaxSamples
MaxSamples == 2
\* calls of whisper_ffi_transcribe by the caller
MaxCalls == 2

----------------------------------------------------------------------------
(* Fixed-width arithmetic *)

Limb == 256 * 256

Min(a, b) == IF a < b THEN a ELSE b

\* a wide unsigned value
W(h, l) == [hi |-> h, lo |-> l]

WOf(n) == W(n \div Limb, n % Limb)

WAdd(a, b) ==
  LET s == a.lo + b.lo
  IN  W(a.hi + b.hi + (s \div Limb), s % Limb)

WLess(a, b) == a.hi < b.hi \/ (a.hi = b.hi /\ a.lo < b.lo)

\* uint32_t from four bytes in memory order (the targets are little-endian)
U32(b) == W(b[3] + 256 * b[4], b[1] + 256 * b[2])

\* uint32_t x - n for 0 <= n < 65536, modulo 2^32
U32SubWrap(x, n) ==
  IF x.lo >= n THEN W(x.hi, x.lo - n)
  ELSE W((x.hi + Limb - 1) % Limb, x.lo + Limb - n)

\* uint32_t x / k (unsigned division), 0 < k < 32768
U32Div(x, k) ==
  LET r == x.hi % k
  IN  W(x.hi \div k, (r * Limb + x.lo) \div k)

\* k < x for a small natural k
WGreater(x, k) == WLess(WOf(k), x)

\* uint16_t left in memory when the first Len(b) of its 2 bytes are stored over old
Store16(old, b) ==
  CASE Len(b) >= 2 -> b[1] + 256 * b[2]
    [] Len(b) = 1  -> b[1] + 256 * (old \div 256)
    [] OTHER       -> old

\* uint32_t left in memory when the first Len(b) of its 4 bytes are stored over old
Store32(old, b) ==
  LET o == <<old.lo % 256, old.lo \div 256, old.hi % 256, old.hi \div 256>>
      m == [k \in 1..4 |-> IF k <= Len(b) THEN b[k] ELSE o[k]]
  IN  U32(m)

\* the 16-bit pattern taken for an unsigned value
S16Unsigned(u) == u

\* the int16_t a 16-bit pattern denotes (two's complement)
S16(u) == IF u >= 32768 THEN u - 65536 ELSE u

\* sample / 32768.0f: the quotient is exact in binary32, kept as a fraction
ToFloat(v) == [num |-> v, den |-> 32768]

----------------------------------------------------------------------------
(* Bytes of a RIFF/WAVE file *)

Byte == 0..255

\* four-character tags as ASCII codes
TagRIFF == <<82, 73, 70, 70>>
TagWAVE == <<87, 65, 86, 69>>
TagFmt  == <<102, 109, 116, 32>>
TagData == <<100, 97, 116, 97>>
TagJUNK == <<74, 85, 78, 75>>
TagLIST == <<76, 73, 83, 84>>

LE16(n) == <<n % 256, (n \div 256) % 256>>
LE32(n) == <<n % 256, (n \div 256) % 256, (n \div Limb) % 256, n \div (256 * Limb)>>

Zeros(n) == [k \in 1..n |-> 0]

\* a chunk as it lies in the file: tag, declared size (4 bytes), body bytes
Chunk(id, size, body) == [id |-> id, size |-> size, body |-> body]

ChunkBytes(c) == c.id \o c.size \o c.body

RECURSIVE Flatten(_)
Flatten(cs) == IF cs = <<>> THEN <<>> ELSE ChunkBytes(Head(cs)) \o Flatten(Tail(cs))

\* the 16-byte WAVEFORMAT body followed by `extra` zero bytes
FmtBody(fmt, ch, rate, bits, extra) ==
  LE16(fmt) \o LE16(ch) \o LE32(rate) \o LE32(rate * ch * (bits \div 8))
    \o LE16(ch * (bits \div 8)) \o LE16(bits) \o Zeros(extra)

CanonicalFmt == Chunk(TagFmt, LE32(16), FmtBody(1, 1, 16000, 16, 0))

\* fmt chunks that pass validation: canonical, another sample rate, declared
\* size 18 with two extension bytes
GoodFmtChunks ==
  { CanonicalFmt,
    Chunk(TagFmt, LE32(16), FmtBody(1, 1, 8000, 16, 0)),
    Chunk(TagFmt, LE32(18), FmtBody(1, 1, 16000, 16, 2)) }

\* (audio_format, num_channels, sample_rate, bits_per_sample) of the other fmt chunks
OddFmtParams ==
  { <<3, 1, 16000, 16>>, <<1, 2, 16000, 16>>, <<1, 0, 16000, 16>>,
    <<1, 1, 16000, 8>>, <<1, 1, 16000, 24>>, <<1, 1, 16000, 4>>, <<1, 1, 16000, 0>>,
    <<3, 2, 16000, 4>>, <<1, 2, 8000, 0>> }

\* fmt chunks with other parameters, and canonical parameters behind a declared
\* size of 14 or 0 (the 16-byte body is there all the same)
OddFmtChunks ==
  { Chunk(TagFmt, LE32(16), FmtBody(p[1], p[2], p[3], p[4], 0)) : p \in OddFmtParams }
  \cup { Chunk(TagFmt, LE32(s), FmtBody(1, 1, 16000, 16, 0)) : s \in {0, 14} }

\* a fmt chunk at the end of the file with only k bytes of its body left
ShortFmtChunks ==
  { Chunk(TagFmt, LE32(16), SubSeq(FmtBody(1, 1, 16000, 16, 0), 1, k)) : k \in {0, 1, 3, 6} }

FmtChunks == GoodFmtChunks \cup OddFmtChunks

\* sample bytes the data bodies are cut from
Pattern1 == <<0, 128, 255, 127, 1, 0, 255, 255>>
Pattern2 == <<52, 18, 0, 1, 128, 0, 0, 128>>

Cycle(p, n) == [k \in 1..n |-> p[((k - 1) % Len(p)) + 1]]

\* data chunks: declared size 0..2*MaxSamples, body of that many bytes
DataChunks ==
  { Chunk(TagData, LE32(d), Cycle(p, d)) : d \in 0..(2 * MaxSamples), p \in {Pattern1, Pattern2} }

FewDataChunks == { Chunk(TagData, LE32(d), Cycle(Pattern1, d)) : d \in {0, 2} }

\* chunks that are neither fmt nor data, body as long as declared (one of
\* even, one of odd size)
JunkKind(k) ==
  IF k % 2 = 0 THEN Chunk(TagJUNK, LE32(0), <<>>) ELSE Chunk(TagLIST, LE32(3), <<7, 7, 7>>)

\* a run of n unknown chunks of alternating kinds, the first of kind k
JunkRun(n, k) == [j \in 1..n |-> JunkKind(k + j)]

JunkRuns(n) == { JunkRun(m, k) : m \in 0..n, k \in {0, 1} }

\* a chunk whose declared size (0xFFFFFFF0) runs far past the end of the file
HugeChunk == Chunk(TagJUNK, <<240, 255, 255, 255>>, <<9, 9>>)

\* runs of unknown chunks in the two gaps, MaxJunk chunks in all; or the
\* oversized chunk in one gap
JunkPairs ==
  { pm \in JunkRuns(MaxJunk) \X JunkRuns(MaxJunk) : Len(pm[1]) + Len(pm[2]) <= MaxJunk }
  \cup { << <<HugeChunk>>, <<>> >>, << <<>>, <<HugeChunk>> >> }

Opt(S) == { <<>> } \cup { <<x>> : x \in S }

\* a layout: envelope tags, the junk in front, the first main chunk, the junk
\* between, the second main chunk
Layout(riff, wave, pre, first, mid, second) ==
  [riff |-> riff, wave |-> wave, pre |-> pre, first |-> first, mid |-> mid, second |-> second]

LayoutChunks(l) == l.pre \o l.first \o l.mid \o l.second

\* the file of a layout; the RIFF size field counts what follows it
LayoutBytes(l) ==
  LET body == Flatten(LayoutChunks(l))
  IN  l.riff \o LE32(4 + Len(body)) \o l.wave \o body

\* fmt first then data (either may be absent), with junk
FmtFirstLayouts ==
  { Layout(TagRIFF, TagWAVE, pm[1], f, pm[2], d) :
      pm \in JunkPairs, f \in Opt(GoodFmtChunks), d \in Opt(DataChunks) }
  \cup { Layout(TagRIFF, TagWAVE, pm[1], <<f>>, pm[2], d) :
      pm \in JunkPairs, f \in OddFmtChunks, d \in Opt(FewDataChunks) }
  \cup { Layout(TagRIFF, TagWAVE, pre, <<f>>, <<>>, <<>>) :
      pre \in JunkRuns(MaxJunk), f \in ShortFmtChunks }

\* a data chunk in front of the fmt chunk (or with no fmt chunk after it)
DataFirstLayouts ==
  { Layout(TagRIFF, TagWAVE, pm[1], <<d>>, pm[2], f) :
      pm \in JunkPairs, d \in FewDataChunks, f \in Opt({CanonicalFmt}) }

\* envelopes whose tags are not RIFF / WAVE
BadEnvelopeLayouts ==
  { Layout(r, w, <<>>, <<CanonicalFmt>>, <<>>, <<Chunk(TagData, LE32(2), Cycle(Pattern1, 2))>>) :
      r \in {TagRIFF, <<82, 73, 70, 88>>}, w \in {TagWAVE, <<87, 65, 86, 32>>} }

Layouts == FmtFirstLayouts \cup DataFirstLayouts \cup BadEnvelopeLayouts

\* bytes cut from the end of the file
Cuts == 0..MaxCut

\* the file left when `cut` bytes are cut from its end; the 12-byte envelope stays
Truncate(bytes, cut) == SubSeq(bytes, 1, IF Len(bytes) - cut < 12 THEN 12 ELSE Len(bytes) - cut)

----------------------------------------------------------------------------
(* File names *)

\* names as sequences of characters
NameWav    == <<"a", ".", "w", "a", "v">>
NameUpper  == <<"A", ".", "W", "a", "V">>
NameMp3    == <<"a", ".", "m", "p", "3">>
NameNoDot  == <<"w", "a", "v">>
NameTwoDot == <<"a", ".", "w", "a", "v", ".", "b">>

FileNames == {NameWav, NameUpper, NameMp3, NameNoDot, NameTwoDot}

\* ::tolower on the characters used
ToLowerChar(c) ==
  CASE c = "A" -> "a"
    [] c = "W" -> "w"
    [] c = "V" -> "v"
    [] OTHER   -> c

to_lower(str) == [k \in 1..Len(str) |-> ToLowerChar(str[k])]

\* filename.find_last_of("."), 0 standing for npos
FindLastDot(name) ==
  LET dots == { k \in 1..Len(name) : name[k] = "." }
  IN  IF dots = {} THEN 0 ELSE CHOOSE k \in dots : \A j \in dots : j <= k

get_file_extension(name) ==
  LET dot_pos == FindLastDot(name)
  IN  IF dot_pos = 0 THEN <<>> ELSE to_lower(SubSeq(name, dot_pos + 1, Len(name)))

ExtWav == <<"w", "a", "v">>

----------------------------------------------------------------------------
(* The input stream: std::ifstream reduced to its cursor and its fail bit *)

\* bytes between the cursor and the end of the file
Avail(f, p) == IF p.hi > 0 \/ p.lo >= Len(f) THEN 0 ELSE Len(f) - p.lo

\* file.read(dst, n): nothing is stored once the stream has failed; otherwise
\* the bytes that are there are stored and a short read sets the fail bit
StreamRead(f, p, fl, n) ==
  IF fl THEN [data |-> <<>>, pos |-> p, fail |-> TRUE]
  ELSE LET k == Min(n, Avail(f, p))
       IN  [data |-> SubSeq(f, p.lo + 1, p.lo + k), pos |-> WAdd(p, WOf(k)), fail |-> k < n]

\* file.seekg(off, std::ios::cur) with off >= 0: a failed stream stays where it
\* is; otherwise the cursor moves, also past the end of the file
StreamSeek(p, fl, off) == IF fl THEN p ELSE WAdd(p, off)

\* file.tellg() < file_size - 8: tellg() is -1 on a failed stream, which the
\* unsigned comparison takes for the largest value
LoopGuard(f, p, fl) == ~fl /\ WLess(p, WOf(Len(f) - 8))

\* the first n bytes stored into a local of n bytes (zero where nothing was stored)
Stored(b, n) == [k \in 1..n |-> IF k <= Len(b) THEN b[k] ELSE 0]

\* values an int16_t local can hold when read() stored nothing into it
IndetWords == {0, 42405}

----------------------------------------------------------------------------
(* State *)

VARIABLES
  \* storage: the name asked for, whether a file of that name opens, its bytes,
  \* and how the bytes were laid out (layout, cut: never read by the program)
  filename, present, file, layout, cut,
  \* read_audio_file: position in the code, stream, locals, return value
  pc, pos, fail,
  audio_format, num_channels, sample_rate, bits_per_sample, fmt_found,
  data_found, data_size, num_samples, i, audio_data,
  returned, outcome, warnings,
  \* what the build does where the language leaves it open: integer division
  \* by zero, inserting a null char* into a stream, the value of an int16_t
  \* nothing was stored into (per sample index)
  div_zero, null_insert, indet,
  \* whisper_ffi_transcribe / whisper_ffi_free_string: arguments of the call,
  \* calls made, buffers allocated with new[] and not deleted, pointers the
  \* caller was handed and has not released, the last value returned
  \* and how the recognition call of the last transcription went
  ctx_arg, path_arg, calls, heap, held, ret, rc,
  \* result of the decode of the file before unknown chunks were inserted
  base

storage == <<filename, present, file, layout, cut>>
stream  == <<pos, fail>>
format  == <<audio_format, num_channels, sample_rate, bits_per_sample, fmt_found>>
data    == <<data_found, data_size, num_samples, i, audio_data>>
result  == <<returned, outcome>>
build   == <<div_zero, null_insert, indet>>
ffi     == <<ctx_arg, path_arg, calls, heap, held, ret, rc>>

vars == <<storage, pc, stream, format, data, result, warnings, build, ffi, base>>

\* file_size as read_audio_file computes it
file_size == Len(file)

\* entry of read_audio_file: locals as their declarations initialise them
Entry ==
  /\ pos = WOf(0) /\ fail = FALSE
  /\ audio_format = 0 /\ num_channels = 0 /\ sample_rate = WOf(0)
  /\ bits_per_sample = 0 /\ fmt_found = FALSE
  /\ data_found = FALSE /\ data_size = WOf(0)
  /\ num_samples = WOf(0) /\ i = 0 /\ audio_data = <<>>
  /\ returned = <<>> /\ outcome = "none" /\ warnings = {}

\* a call of read_audio_file: the same, as the step that enters it
Enter ==
  /\ pos' = WOf(0) /\ fail' = FALSE
  /\ audio_format' = 0 /\ num_channels' = 0 /\ sample_rate' = WOf(0)
  /\ bits_per_sample' = 0 /\ fmt_found' = FALSE
  /\ data_found' = FALSE /\ data_size' = WOf(0)
  /\ num_samples' = WOf(0) /\ i' = 0 /\ audio_data' = <<>>
  /\ returned' = <<>> /\ outcome' = "none" /\ warnings' = {}

\* a return statement of read_audio_file: `return {}` hands back no samples.
\* The kinds name the return sites by the message each prints:
\*   OpenFailed               line 50   "Could not open file"
\*   UnsupportedExtension     line 65   "Unsupported file format"
\*   InvalidContainer         lines 74, 79   "Invalid RIFF header", "Invalid WAVE header"
\*   DataBeforeFormat         line 122  "Found data chunk before fmt chunk"
\*   MissingFormatChunk       line 132  "No fmt chunk found in WAV file"
\*   UnsupportedCodec         line 144  "Unsupported audio format"
\*   UnsupportedChannelLayout line 149  "Whisper requires mono audio"
\*   MissingDataChunk         line 186  "No data chunk found in WAV file"
\*   UnsupportedBitDepth      line 205  "Unsupported bit depth"
\*   Ok                       line 209  "Successfully read N audio samples"
\* ArithmeticFault is the trap of the division of line 191, not a return.
Return(kind, samples) ==
  /\ pc' = "done"
  /\ outcome' = kind
  /\ returned' = samples

----------------------------------------------------------------------------
(* read_audio_file *)

\* lines 47-67: open, size, extension
Open ==
  /\ pc = "open"
  /\ IF ~present THEN Return("OpenFailed", <<>>)
     ELSE IF get_file_extension(filename) # ExtWav THEN Return("UnsupportedExtension", <<>>)
     ELSE /\ pc' = "header"
          /\ UNCHANGED result
  /\ UNCHANGED <<storage, stream, format, data, warnings, build, ffi, base>>

\* lines 69-81: the 12-byte envelope
ReadHeader ==
  /\ pc = "header"
  /\ \E r \in {StreamRead(file, pos, fail, 12)} :
     \E riff_header \in {Stored(r.data, 12)} :
         /\ pos' = r.pos
         /\ fail' = r.fail
         /\ IF SubSeq(riff_header, 1, 4) # TagRIFF THEN Return("InvalidContainer", <<>>)
            ELSE IF SubSeq(riff_header, 9, 12) # TagWAVE THEN Return("InvalidContainer", <<>>)
            ELSE /\ pc' = "fmt_loop"
                 /\ UNCHANGED result
  /\ UNCHANGED <<storage, format, data, warnings, build, ffi, base>>

\* the declared size rounded up to the RIFF word boundary
SkipAmountPadded(chunk_size) ==
  IF chunk_size.lo % 2 = 1 THEN WAdd(chunk_size, WOf(1)) ELSE chunk_size

\* bytes seekg moves over an unknown chunk (lines 127 and 181)
SkipAmount(chunk_size) == chunk_size

\* size_t remaining = chunk_size - 16 (line 114): 32-bit unsigned arithmetic
Remaining(chunk_size) == U32SubWrap(chunk_size, 16)

\* lines 90-129, one iteration of the search for the fmt chunk
FmtLoopIter ==
  /\ pc = "fmt_loop"
  /\ LoopGuard(file, pos, fail)
  /\ \E r1 \in {StreamRead(file, pos, fail, 4)} :
     \E r2 \in {StreamRead(file, r1.pos, r1.fail, 4)} :
     \E chunk_name \in {Stored(r1.data, 4)}, chunk_size \in {U32(Stored(r2.data, 4))} :
       IF chunk_name = TagFmt THEN
         \E a \in {StreamRead(file, r2.pos, r2.fail, 2)} :
         \E c \in {StreamRead(file, a.pos, a.fail, 2)} :
         \E s \in {StreamRead(file, c.pos, c.fail, 4)} :
         \E p6 \in {StreamSeek(s.pos, s.fail, WOf(6))} :
         \E b \in {StreamRead(file, p6, s.fail, 2)} :
         \E remaining \in {Remaining(chunk_size)} :
               /\ fmt_found' = TRUE
               /\ audio_format' = Store16(audio_format, a.data)
               /\ num_channels' = Store16(num_channels, c.data)
               /\ sample_rate' = Store32(sample_rate, s.data)
               /\ bits_per_sample' = Store16(bits_per_sample, b.data)
               /\ pos' = IF WGreater(remaining, 0) THEN StreamSeek(b.pos, b.fail, remaining) ELSE b.pos
               /\ fail' = b.fail
               /\ pc' = "fmt_done"
               /\ UNCHANGED result
       ELSE IF chunk_name = TagData THEN
               /\ pos' = r2.pos
               /\ fail' = r2.fail
               /\ Return("DataBeforeFormat", <<>>)
               /\ UNCHANGED format
       ELSE    /\ pos' = StreamSeek(r2.pos, r2.fail, SkipAmount(chunk_size))
               /\ fail' = r2.fail
               /\ UNCHANGED <<pc, format, result>>
  /\ UNCHANGED <<storage, data, warnings, build, ffi, base>>

\* line 90, the loop condition found false
FmtLoopExit ==
  /\ pc = "fmt_loop"
  /\ ~LoopGuard(file, pos, fail)
  /\ pc' = "fmt_done"
  /\ UNCHANGED <<storage, stream, format, data, result, warnings, build, ffi, base>>

\* line 143: only PCM
IsPcm(af) == af = 1

\* mono or stereo let through
IsMonoOrStereo(ch) == ch \in {1, 2}

\* line 148: only mono
IsMono(ch) == ch = 1

\* lines 131-159: the fmt chunk must have been found, PCM, mono; sample rate
\* and bit depth only warn
Validate ==
  /\ pc = "fmt_done"
  /\ IF ~fmt_found THEN Return("MissingFormatChunk", <<>>) /\ UNCHANGED warnings
     ELSE IF ~IsPcm(audio_format) THEN Return("UnsupportedCodec", <<>>) /\ UNCHANGED warnings
     ELSE IF ~IsMono(num_channels) THEN Return("UnsupportedChannelLayout", <<>>) /\ UNCHANGED warnings
     ELSE /\ warnings' = (IF sample_rate # WOf(16000) THEN {"SampleRate"} ELSE {})
                           \cup (IF bits_per_sample # 16 THEN {"BitDepth"} ELSE {})
          /\ pc' = "data_loop"
          /\ UNCHANGED result
  /\ UNCHANGED <<storage, stream, format, data, build, ffi, base>>

\* lines 165-183, one iteration of the search for the data chunk
DataLoopIter ==
  /\ pc = "data_loop"
  /\ LoopGuard(file, pos, fail)
  /\ \E r1 \in {StreamRead(file, pos, fail, 4)} :
     \E r2 \in {StreamRead(file, r1.pos, r1.fail, 4)} :
     \E chunk_name \in {Stored(r1.data, 4)}, chunk_size \in {U32(Stored(r2.data, 4))} :
       IF chunk_name = TagData THEN
               /\ data_found' = TRUE
               /\ data_size' = chunk_size
               /\ pos' = r2.pos
               /\ fail' = r2.fail
               /\ pc' = "data_done"
       ELSE    /\ pos' = StreamSeek(r2.pos, r2.fail, SkipAmount(chunk_size))
               /\ fail' = r2.fail
               /\ UNCHANGED <<pc, data_found, data_size>>
  /\ UNCHANGED <<storage, format, num_samples, i, audio_data, result, warnings, build, ffi, base>>

\* line 165, the loop condition found false
DataLoopExit ==
  /\ pc = "data_loop"
  /\ ~LoopGuard(file, pos, fail)
  /\ pc' = "data_done"
  /\ UNCHANGED <<storage, stream, format, data, result, warnings, build, ffi, base>>

\* bits_per_sample / 8 (line 191)
BytesPerSample(bits) == bits \div 8

\* lines 185-197 and 204-207: the data chunk must have been found; the sample
\* count is computed before the bit depth is looked at.  A divisor of 0 traps
\* or yields 0, as the build has it.
PrepareSamples ==
  /\ pc = "data_done"
  /\ IF ~data_found THEN
          /\ Return("MissingDataChunk", <<>>)
          /\ UNCHANGED <<num_samples, div_zero>>
     ELSE IF BytesPerSample(bits_per_sample) = 0 THEN
          \E d \in (IF div_zero = "unset" THEN {"trap", "zero"} ELSE {div_zero}) :
            /\ div_zero' = d
            /\ IF d = "trap"
               THEN /\ pc' = "crashed"
                    /\ outcome' = "ArithmeticFault"
                    /\ UNCHANGED <<num_samples, returned>>
               ELSE /\ num_samples' = WOf(0)
                    /\ Return("UnsupportedBitDepth", <<>>)
     ELSE /\ num_samples' = U32Div(data_size, BytesPerSample(bits_per_sample))
          /\ UNCHANGED div_zero
          /\ IF bits_per_sample = 16
             THEN pc' = "samples" /\ UNCHANGED result
             ELSE Return("UnsupportedBitDepth", <<>>)
  /\ UNCHANGED <<storage, stream, format, data_found, data_size, i, audio_data,
                 warnings, null_insert, indet, ffi, base>>

\* lines 198-203, one iteration: read 2 bytes into `sample`, append
\* sample / 32768.0f.  Bytes read() did not store keep what the local held.
ReadSample ==
  /\ pc = "samples"
  /\ WLess(WOf(i), num_samples)
  /\ \E r \in {StreamRead(file, pos, fail, 2)} :
         /\ pos' = r.pos
         /\ fail' = r.fail
         /\ IF Len(r.data) = 2
            THEN /\ audio_data' = Append(audio_data, ToFloat(S16(Store16(0, r.data))))
                 /\ UNCHANGED indet
            ELSE \E w \in (IF i \in DOMAIN indet THEN {indet[i]} ELSE IndetWords) :
                   /\ indet' = [k \in DOMAIN indet \cup {i} |-> IF k = i THEN w ELSE indet[k]]
                   /\ audio_data' = Append(audio_data, ToFloat(S16(Store16(w, r.data))))
  /\ i' = i + 1
  /\ UNCHANGED <<storage, pc, format, data_found, data_size, num_samples, result,
                 warnings, div_zero, null_insert, ffi, base>>

\* lines 209-210: all samples read
ReturnSamples ==
  /\ pc = "samples"
  /\ ~WLess(WOf(i), num_samples)
  /\ Return("Ok", audio_data)
  /\ UNCHANGED <<storage, stream, format, data, warnings, build, ffi, base>>

read_audio_file ==
  \/ Open
  \/ ReadHeader
  \/ FmtLoopIter
  \/ FmtLoopExit
  \/ Validate
  \/ DataLoopIter
  \/ DataLoopExit
  \/ PrepareSamples
  \/ ReadSample
  \/ ReturnSamples

----------------------------------------------------------------------------
(* Inputs *)

CanonicalLayout ==
  Layout(TagRIFF, TagWAVE, <<>>, <<CanonicalFmt>>, <<>>, <<Chunk(TagData, LE32(4), Cycle(Pattern1, 4))>>)

\* storage holding the file of layout l cut by c under name n
Stored_(n, p, l, c) ==
  /\ filename = n /\ present = p /\ layout = l /\ cut = c
  /\ file = Truncate(LayoutBytes(l), c)

NoBuild == div_zero = "unset" /\ null_insert = "unset" /\ indet = <<>>

\* the null pointer; buffers are numbered from 1
nullptr == 0

NoFfi ==
  /\ ctx_arg = "ctx" /\ path_arg = "path" /\ calls = 0
  /\ heap = <<>> /\ held = {} /\ ret = nullptr /\ rc = "none"

\* read_audio_file entered on one of the generated files
Init ==
  /\ \/ \E l \in Layouts, c \in Cuts : Stored_(NameWav, TRUE, l, c)
     \/ \E n \in FileNames, p \in BOOLEAN : Stored_(n, p, CanonicalLayout, 0)
  /\ pc = "open"
  /\ Entry
  /\ NoBuild
  /\ NoFfi
  /\ base = <<>>

Next == read_audio_file

Spec == Init /\ [][Next]_vars

----------------------------------------------------------------------------
(* What the layout says about the file, for stating the properties *)

ValidEnvelope == layout.riff = TagRIFF /\ layout.wave = TagWAVE

\* the file opens and is taken for a WAV file
Opens == present /\ get_file_extension(filename) = ExtWav

Declared(c) == U32(c.size)

\* the body is as long as the chunk declares
Exact(c) == Declared(c) = WOf(Len(c.body))

AllExact(run) == \A k \in 1..Len(run) : Exact(run[k])

RECURSIVE RunLen(_)
RunLen(run) == IF run = <<>> THEN 0 ELSE 8 + Len(Head(run).body) + RunLen(Tail(run))

\* offsets of the headers of the two main chunks
FirstOffset  == 12 + RunLen(layout.pre)
SecondOffset == FirstOffset + RunLen(layout.first) + RunLen(layout.mid)

\* how many of the n bytes at offset off are in the file
BytesIn(off, n) ==
  IF file_size <= off THEN 0 ELSE Min(n, file_size - off)

IsFmt(run)  == run # <<>> /\ run[1].id = TagFmt
IsData(run) == run # <<>> /\ run[1].id = TagData

\* 16-bit field of a fmt body at byte offset off
Field16(body, off) == body[off + 1] + 256 * body[off + 2]

\* the signed 16-bit integer with low byte b0 and high byte b1
SignedLE16(b0, b1) == b0 + 256 * b1 - (IF b1 >= 128 THEN 65536 ELSE 0)

Ended == pc \in {"done", "crashed"}

\* the file is read as WAV and the first fmt-or-data chunk of its chunk
\* sequence is a fmt chunk with its whole 16-byte body in the file
FmtChunkFirst ==
  /\ Opens /\ ValidEnvelope
  /\ AllExact(layout.pre)
  /\ IsFmt(layout.first)
  /\ Len(layout.first[1].body) >= 16
  /\ BytesIn(FirstOffset + 8, 16) = 16

\* ... declaring PCM, one channel, and declaring at least its 16 bytes
PcmMonoFmt ==
  /\ FmtChunkFirst
  /\ Exact(layout.first[1])
  /\ Field16(layout.first[1].body, 0) = 1
  /\ Field16(layout.first[1].body, 2) = 1

\* ... followed in the chunk sequence by a data chunk whose header is in the file
DataChunkSecond ==
  /\ AllExact(layout.mid)
  /\ IsData(layout.second)
  /\ BytesIn(SecondOffset, 8) = 8

----------------------------------------------------------------------------
(* whisper_ffi_transcribe and whisper_ffi_free_string *)

\* what whisper_full and the segment getters can hand back: the return code
\* (or an exception) and the segment texts, "null" for a null text
WhisperRuns ==
  { [code |-> "fail", segments |-> <<>>], [code |-> "throw", segments |-> <<>>] }
  \cup { [code |-> "ok", segments |-> g] :
           g \in { <<>>, << <<"h", "i">> >>, << "null", <<"o">>, <<"k">> >> } }

\* lines 264-270: the texts of the segments, null texts left out
RECURSIVE Concat(_)
Concat(segments) ==
  IF segments = <<>> THEN <<>>
  ELSE (IF Head(segments) = "null" THEN <<>> ELSE Head(segments)) \o Concat(Tail(segments))

NoSpeech == <<"[", "N", "o", " ", "s", "p", "e", "e", "c", "h", "]">>

\* lines 272-275
ResultText(segments) == IF Concat(segments) = <<>> THEN NoSpeech ELSE Concat(segments)

\* lines 232-242: log line, argument check, entry of read_audio_file.
\* Inserting a null audio_path into std::cerr (line 233, before the check of
\* line 235) traps or only sets the stream's badbit, as the build has it.
Transcribe(c, p) ==
  /\ pc = "idle"
  /\ calls < MaxCalls
  /\ calls' = calls + 1
  /\ ctx_arg' = c
  /\ path_arg' = p
  /\ rc' = "none"
  /\ \E n \in (IF p # "null" THEN {"none"}
               ELSE IF null_insert = "unset" THEN {"trap", "badbit"} ELSE {null_insert}) :
       /\ null_insert' = IF n = "none" THEN null_insert ELSE n
       /\ IF n = "trap" THEN
               /\ pc' = "crashed"
               /\ UNCHANGED <<stream, format, data, result, warnings, ret>>
          ELSE IF c = "null" \/ p = "null" THEN
               /\ ret' = nullptr
               /\ UNCHANGED <<pc, stream, format, data, result, warnings>>
          ELSE /\ pc' = "open"
               /\ Enter
               /\ UNCHANGED ret
  /\ UNCHANGED <<storage, div_zero, indet, heap, held, base>>

\* lines 244-289 once read_audio_file has returned: empty samples, the
\* recognition call, the text, new char[] and strcpy; catch (...) returns null
TranscribeFinish ==
  /\ pc = "done"
  /\ pc' = "idle"
  /\ IF returned = <<>> THEN
          /\ ret' = nullptr
          /\ UNCHANGED <<heap, held, rc>>
     ELSE \E w \in WhisperRuns, alloc \in {"ok", "throw"} :
          /\ rc' = w.code
          /\ IF w.code = "ok" /\ alloc = "ok"
             THEN /\ heap' = [b \in DOMAIN heap \cup {calls} |->
                                IF b = calls THEN ResultText(w.segments) \o <<"NUL">> ELSE heap[b]]
                  /\ ret' = calls
                  /\ held' = held \cup {calls}
             ELSE /\ ret' = nullptr
                  /\ UNCHANGED <<heap, held>>
  /\ UNCHANGED <<storage, stream, format, data, result, warnings, build, ctx_arg, path_arg, calls, base>>

\* lines 298-302: the caller releases a pointer it was handed, or null
FreeString(str) ==
  /\ pc = "idle"
  /\ IF str # nullptr
     THEN /\ heap' = [b \in DOMAIN heap \ {str} |-> heap[b]]
          /\ held' = held \ {str}
     ELSE UNCHANGED <<heap, held>>
  /\ UNCHANGED <<storage, pc, stream, format, data, result, warnings, build,
                 ctx_arg, path_arg, calls, ret, rc, base>>

\* files the caller transcribes
FfiLayouts ==
  { Layout(TagRIFF, TagWAVE, <<>>, <<f>>, <<>>, d) :
      f \in { CanonicalFmt,
              Chunk(TagFmt, LE32(16), FmtBody(1, 1, 16000, 4, 0)),
              Chunk(TagFmt, LE32(16), FmtBody(1, 2, 16000, 16, 0)) },
      d \in Opt({ Chunk(TagData, LE32(n), Cycle(Pattern1, n)) : n \in {0, 4} }) }
  \cup { Layout(TagRIFF, TagWAVE, <<JunkKind(1)>>, <<>>, <<>>, <<>>) }

InitFfi ==
  /\ \/ \E l \in FfiLayouts, c \in {0, 1} : Stored_(NameWav, TRUE, l, c)
     \/ \E n \in FileNames, p \in BOOLEAN : Stored_(n, p, CanonicalLayout, 0)
  /\ pc = "idle"
  /\ Entry
  /\ NoBuild
  /\ NoFfi
  /\ base = <<>>

NextFfi ==
  \/ \E c \in {"null", "ctx"}, p \in {"null", "path"} : Transcribe(c, p)
  \/ read_audio_file
  \/ TranscribeFinish
  \/ \E str \in held \cup {nullptr} : FreeString(str)

SpecFfi == InitFfi /\ [][NextFfi]_vars

----------------------------------------------------------------------------
(* Decoding a file again after unknown chunks were inserted *)

\* the runs inserted in front of the fmt chunk and between fmt and data
InsertedRuns ==
  { pm \in JunkRuns(MaxJunk) \X JunkRuns(MaxJunk) :
      Len(pm[1]) + Len(pm[2]) >= 1 /\ Len(pm[1]) + Len(pm[2]) <= MaxJunk }

\* the caller inserts unknown chunks, bodies as declared and inside the file,
\* right in front of the fmt chunk and/or right in front of the data chunk,
\* and decodes the new file
Insert(run1, run2) ==
  /\ Ended
  /\ base = <<>>
  /\ IsFmt(layout.first)
  /\ run1 # <<>> => cut <= RunLen(layout.first \o layout.mid \o layout.second)
  /\ run2 # <<>> => (IsData(layout.second) /\ cut <= RunLen(layout.second))
  /\ base' = << [outcome |-> outcome, returned |-> returned] >>
  /\ layout' = [layout EXCEPT !.pre = @ \o run1, !.mid = @ \o run2]
  /\ file' = Truncate(LayoutBytes(layout'), cut)
  /\ pc' = "open"
  /\ Enter
  /\ UNCHANGED <<filename, present, cut, build, ffi>>

RelLayouts ==
  { l \in FmtFirstLayouts : IsFmt(l.first) /\ l.pre = <<>> /\ l.mid = <<>> }

InitRel ==
  /\ \E l \in RelLayouts, c \in Cuts : Stored_(NameWav, TRUE, l, c)
  /\ pc = "open"
  /\ Entry
  /\ NoBuild
  /\ NoFfi
  /\ base = <<>>

NextRel ==
  \/ read_audio_file
  \/ \E pm \in InsertedRuns : Insert(pm[1], pm[2])

SpecRel == InitRel /\ [][NextRel]_vars

\* read_audio_file runs to its end once entered
FairSpec == Spec /\ WF_vars(Next)

----------------------------------------------------------------------------
(* Properties of read_audio_file *)

\* C1: a PCM, mono, 16-bit file whose data chunk of declared size D lies fully
\* inside the file decodes to exactly D div 2 samples, sample i being the
\* signed little-endian 16-bit integer of data bytes 2i, 2i+1 over 32768,
\* in file order, each in [-1, 1)
C1_Decode ==
  ( /\ Ended
    /\ PcmMonoFmt
    /\ Field16(layout.first[1].body, 14) = 16
    /\ DataChunkSecond
    /\ Exact(layout.second[1])
    /\ BytesIn(SecondOffset + 8, Len(layout.second[1].body)) = Len(layout.second[1].body) )
  => LET body == layout.second[1].body
         D == Len(body)
     IN  /\ pc = "done"
         /\ Len(returned) = D \div 2
         /\ \A k \in 1..(D \div 2) :
              /\ returned[k] = [num |-> SignedLE16(body[2 * k - 1], body[2 * k]), den |-> 32768]
              /\ -returned[k].den <= returned[k].num
              /\ returned[k].num < returned[k].den

C1_Witness ==
  /\ pc = "done" /\ outcome = "Ok"
  /\ PcmMonoFmt /\ DataChunkSecond
  /\ layout.pre # <<>>
  /\ Len(returned) = 2
  /\ returned[1].num = -32768
  /\ returned[2].num = 32767

\* C2: a data chunk met in the chunk sequence before any fmt chunk always
\* ends the decode with DataBeforeFormat and no samples
C2_DataBeforeFormat ==
  ( /\ Ended
    /\ Opens /\ ValidEnvelope
    /\ AllExact(layout.pre)
    /\ \/ IsData(layout.first) /\ BytesIn(FirstOffset, 8) = 8
       \/ layout.first = <<>> /\ DataChunkSecond )
  => (pc = "done" /\ outcome = "DataBeforeFormat" /\ returned = <<>>)

\* C4: the 44-byte canonical file (16-byte PCM/mono/16-bit fmt chunk, data
\* chunk of declared size 0 as the last 8 bytes) is decoded: data chunk
\* found, zero samples, not MissingDataChunk
C4_MinimalFile ==
  ( /\ Ended
    /\ PcmMonoFmt
    /\ Field16(layout.first[1].body, 14) = 16
    /\ layout.pre = <<>> /\ layout.mid = <<>>
    /\ DataChunkSecond
    /\ Declared(layout.second[1]) = WOf(0)
    /\ file_size = 44 )
  => (pc = "done" /\ data_found /\ outcome = "Ok" /\ returned = <<>>)

\* C5: with PCM, one channel and a data chunk after the fmt chunk, every
\* bits_per_sample other than 16 ends the decode with UnsupportedBitDepth
\* and no samples, and with nothing else
C5_BitDepth ==
  ( /\ Ended
    /\ PcmMonoFmt
    /\ Field16(layout.first[1].body, 14) # 16
    /\ DataChunkSecond
    /\ BytesIn(SecondOffset + 8, 1) = 1 )
  => (pc = "done" /\ outcome = "UnsupportedBitDepth" /\ returned = <<>>)

\* C6: audio_format other than 1 ends the decode with UnsupportedCodec;
\* audio_format 1 with a channel count other than 1 ends it with
\* UnsupportedChannelLayout; no samples either way, whatever the rate, the
\* bit depth and the data chunk
C6_CodecAndChannels ==
  (Ended /\ FmtChunkFirst)
  => LET body == layout.first[1].body
     IN  /\ Field16(body, 0) # 1
           => (pc = "done" /\ outcome = "UnsupportedCodec" /\ returned = <<>>)
         /\ (Field16(body, 0) = 1 /\ Field16(body, 2) # 1)
           => (pc = "done" /\ outcome = "UnsupportedChannelLayout" /\ returned = <<>>)

C6_Witness ==
  /\ pc = "done" /\ FmtChunkFirst
  /\ outcome = "UnsupportedChannelLayout"
  /\ bits_per_sample = 0
  /\ sample_rate = WOf(8000)
  /\ layout.second # <<>>

\* C7: a data chunk whose declared size exceeds the bytes left after its
\* header makes the decode fail (UnexpectedEof) with no samples
C7_TruncatedData ==
  ( /\ Ended
    /\ PcmMonoFmt
    /\ Field16(layout.first[1].body, 14) = 16
    /\ DataChunkSecond
    /\ BytesIn(SecondOffset + 8, 1) = 1
    /\ BytesIn(SecondOffset + 8, Len(layout.second[1].body)) < Len(layout.second[1].body) )
  => (pc = "done" /\ outcome = "UnexpectedEof" /\ returned = <<>>)

\* C9: after the first fmt chunk of declared size S the cursor is at
\* body_start + 16 when S <= 16 and at body_start + S when S > 16
C9_FmtCursor ==
  (pc = "fmt_done" /\ fmt_found /\ FmtChunkFirst)
  => LET S == Declared(layout.first[1])
         body_start == WOf(FirstOffset + 8)
     IN  pos = IF WGreater(S, 16) THEN WAdd(body_start, S) ELSE WAdd(body_start, WOf(16))

----------------------------------------------------------------------------
(* Properties of the C entry points *)

\* C8: whisper_ffi_transcribe returns null on every failure branch (null
\* argument, decode failure or empty samples, recognition failure, exception)
\* with no buffer allocated, and a buffer only when ctx and audio_path are
\* non-null, samples were decoded and recognition returned 0; the buffers
\* allocated are exactly those handed out and not yet released
C8_BufferOwnership ==
  /\ (calls > 0 /\ (ctx_arg = "null" \/ path_arg = "null")) => (pc = "idle" /\ ret = nullptr)
  /\ pc # "crashed"
  /\ (pc = "idle" /\ ret # nullptr) =>
       (ctx_arg # "null" /\ path_arg # "null" /\ returned # <<>> /\ rc = "ok")
  /\ DOMAIN heap = held

----------------------------------------------------------------------------
(* Termination of read_audio_file *)

InLoop == pc \in {"fmt_loop", "data_loop"}

\* C10: the cursor never moves backward; an iteration of either search loop
\* moves it by at least 8 bytes; a loop is left, cursor unmoved, once the
\* cursor is within 8 bytes of the end or a read has failed; and every call
\* of read_audio_file returns
C10_Terminates ==
  /\ [][ /\ ~WLess(pos', pos)
         /\ (InLoop /\ LoopGuard(file, pos, fail)) => ~WLess(pos', WAdd(pos, WOf(8)))
         /\ (InLoop /\ (fail \/ ~WLess(pos, WOf(file_size - 8)))) => (pc' # pc /\ pos' = pos)
       ]_vars
  /\ <>(pc = "done")

=============================================================================
